---- MODULE Spec2Model ----
(***************************************************************************)
(* A model of yt_downloder.py: the metadata query, the format listing, the *)
(* progress loop over the output of the download child process, and the    *)
(* three download workflows started from main().                           *)
(*                                                                         *)
(* Text is modelled as sequences of one-character strings, so that         *)
(* formatting, parsing, prefix tests and regular-expression searches are   *)
(* computed character by character as the Python code computes them.       *)
(* Byte counts are exact integers; the inputs are chosen so that the       *)
(* double-precision products of the code are exact on them.                *)
(***************************************************************************)
EXTENDS Integers, Sequences, FiniteSets, TLC

(***************************************************************************)
(* Bounds of the model.                                                    *)
(***************************************************************************)
MaxLines == 2      \* output lines the download child emits in one run
MaxLen == 3        \* length of the titles of the sanitiser specification

(***************************************************************************)
(* Characters and text helpers.                                            *)
(***************************************************************************)
DigitChars == <<"0", "1", "2", "3", "4", "5", "6", "7", "8", "9">>

Digits == {DigitChars[i] : i \in 1..10}

Letters ==
    {"a", "b", "c", "d", "e", "f", "g", "h", "i", "j", "k", "l", "m",
     "n", "o", "p", "q", "r", "s", "t", "u", "v", "w", "x", "y", "z",
     "A", "B", "C", "D", "E", "F", "G", "H", "I", "J", "K", "L", "M",
     "N", "O", "P", "Q", "R", "S", "T", "U", "V", "W", "X", "Y", "Z",
     "é"}

Whitespace == {" ", "\t", "\n"}

\* str.isalnum() on one character: a letter or a digit
isalnum(c) == c \in Letters \cup Digits

\* str.isdigit() on one character
isdigit(c) == c \in Digits

DigitValue(c) == CHOOSE d \in 0..9 : DigitChars[d + 1] = c

\* the elements of a sequence
Range(s) == {s[i] : i \in 1..Len(s)}

\* s.startswith(prefix)
startswith(s, prefix) ==
    /\ Len(prefix) <= Len(s)
    /\ \A i \in 1..Len(prefix) : s[i] = prefix[i]

\* needle in s (substring test)
Contains(s, needle) ==
    \E i \in 1..(Len(s) - Len(needle) + 1) :
        \A j \in 1..Len(needle) : s[i + j - 1] = needle[j]

\* number of consecutive digits of s starting at position i
RECURSIVE DigitRun(_, _)
DigitRun(s, i) ==
    IF i <= Len(s) /\ isdigit(s[i]) THEN 1 + DigitRun(s, i + 1) ELSE 0

\* value of a sequence of digits
RECURSIVE DigitsToInt(_)
DigitsToInt(s) ==
    IF s = <<>> THEN 0
    ELSE 10 * DigitsToInt(SubSeq(s, 1, Len(s) - 1)) + DigitValue(s[Len(s)])

\* str(n) for n >= 0
RECURSIVE IntToStr(_)
IntToStr(n) ==
    IF n < 10 THEN <<DigitChars[n + 1]>>
    ELSE IntToStr(n \div 10) \o <<DigitChars[(n % 10) + 1]>>

\* s.split()[0]: the first whitespace-delimited token of s
FirstToken(s) ==
    LET starts == {i \in 1..Len(s) : s[i] \notin Whitespace}
    IN  IF starts = {} THEN <<>>
        ELSE LET b == CHOOSE i \in starts : \A j \in starts : i <= j
                 ends == {i \in b..Len(s) : s[i] \in Whitespace}
                 e == IF ends = {} THEN Len(s) + 1
                      ELSE CHOOSE i \in ends : \A j \in ends : i <= j
             IN  SubSeq(s, b, e - 1)

\* floor(a * b / c) for a, b >= 0 and c > 0, split so that the
\* intermediate products stay within 32-bit integers
MulDivFloor(a, b, c) == (b \div c) * a + ((b % c) * a) \div c

(***************************************************************************)
(* format_file_size                                                        *)
(***************************************************************************)
UnknownSize == <<"U", "n", "k", "n", "o", "w", "n", " ", "S", "i", "z", "e">>

Units == << <<"B">>, <<"K", "B">>, <<"M", "B">>, <<"G", "B">>, <<"T", "B">> >>

\* JSON values of the metadata record
JInt(n) == [kind |-> "int", n |-> n, s |-> <<>>]
JStr(s) == [kind |-> "str", n |-> 0, s |-> s]
JNull == [kind |-> "null", n |-> 0, s |-> <<>>]
JAbsent == [kind |-> "absent", n |-> 0, s |-> <<>>]

\* int(x): the value, or the exception int() raises
int_of(x) ==
    CASE x.kind = "int" -> [exc |-> "none", n |-> x.n]
      [] x.kind = "str" ->
            IF x.s # <<>> /\ DigitRun(x.s, 1) = Len(x.s)
            THEN [exc |-> "none", n |-> DigitsToInt(x.s)]
            ELSE [exc |-> "ValueError", n |-> 0]
      [] OTHER -> [exc |-> "TypeError", n |-> 0]

\* round(num / den) to the nearest integer, ties to even: the rounding of
\* the "%.2f" conversion of an exactly represented double
RoundHalfEven(num, den) ==
    LET f == num \div den
        r == num % den
    IN  IF 2 * r > den THEN f + 1
        ELSE IF 2 * r < den THEN f
        ELSE IF f % 2 = 0 THEN f ELSE f + 1

\* f"{b / d:.2f} {unit}"
TwoDecimals(b, d, unit) ==
    LET h == (b \div d) * 100 + RoundHalfEven((b % d) * 100, d)
    IN  IntToStr(h \div 100) \o <<".">> \o <<DigitChars[((h % 100) \div 10) + 1]>>
            \o <<DigitChars[(h % 10) + 1]>> \o <<" ">> \o unit

\* the loop of format_file_size: in iteration i the running value is b / d
\* with d = 1024^(i-1)
RECURSIVE FormatLoop(_, _, _)
FormatLoop(b, i, d) ==
    IF i > Len(Units) THEN UnknownSize
    ELSE IF b \div d < 1024 THEN TwoDecimals(b, d, Units[i])
    ELSE FormatLoop(b, i + 1, d * 1024)

\* format_file_size(x) where int(x) does not raise TypeError
format_file_size(x) ==
    IF int_of(x).exc = "ValueError" THEN UnknownSize
    ELSE FormatLoop(int_of(x).n, 1, 1)

(***************************************************************************)
(* sanitize_filename and the inline copy of download_and_merge             *)
(***************************************************************************)
AllowedPunct == {" ", "_", "-"}

\* a faulty variant: a disallowed character is dropped instead of replaced
RECURSIVE sanitize_dropping(_)
sanitize_dropping(title) ==
    IF title = <<>> THEN <<>>
    ELSE LET c == Head(title)
         IN  (IF isalnum(c) \/ c \in AllowedPunct THEN <<c>> ELSE <<>>)
                 \o sanitize_dropping(Tail(title))

sanitize_filename(title) ==
    [i \in 1..Len(title) |->
        IF isalnum(title[i]) \/ title[i] \in AllowedPunct THEN title[i] ELSE "_"]

merge_safe_title(title) ==
    [i \in 1..Len(title) |->
        IF isalnum(title[i]) \/ title[i] \in AllowedPunct THEN title[i] ELSE "_"]

(***************************************************************************)
(* The texts of the model: metadata fields, output lines of the download   *)
(* child, rows of the format listing, format ids typed by the user.        *)
(***************************************************************************)
UnknownTitle == <<"U", "n", "k", "n", "o", "w", "n", " ", "T", "i", "t", "l", "e">>

UnknownResolution == <<"U", "n", "k", "n", "o", "w", "n">>

UnknownRes == <<"U", "n", "k", "n", "o", "w", "n", "R", "e", "s">>

Ext_mp4 == <<".", "m", "p", "4">>

Ext_m4a == <<".", "m", "4", "a">>

TitleTest == <<"T", "e", "s", "t", " ", "V", "i", "d", "e", "o", "!">>

Res1080 == <<"1", "9", "2", "0", "x", "1", "0", "8", "0">>

NotANumber == <<"a", "b", "c">>

LineTenth == <<"0", ".", "1", "%", " ", "o", "f", " ", "1", "5", "M", "i", "B">>

LineHalf == <<"[", "d", "o", "w", "n", "l", "o", "a", "d", "]", " ", "5", "0", ".", "0", "%">>

LineFull == <<"1", "0", "0", "%", " ", "d", "o", "n", "e">>

LineMerger == <<"[", "M", "e", "r", "g", "e", "r", "]", " ", "M", "e", "r", "g", "i", "n", "g">>

Header1 == <<"[", "i", "n", "f", "o", "]", " ", "f", "o", "r", "m", "a", "t", "s", ":">>

Header2 == <<"I", "D", " ", "E", "X", "T", " ", "R", "E", "S", "O", "L", "U", "T", "I", "O", "N">>

Header3 == <<"-", "-", "-", "-", "-">>

Row18 == <<"1", "8", " ", "m", "p", "4", " ", "6", "4", "0", "x", "3", "6", "0", " ", "2", "5", "f", "p", "s">>

Row22 == <<"2", "2", " ", "m", "p", "4", " ", "1", "2", "8", "0", "x", "7", "2", "0", " ", "3", "0", "f", "p", "s">>

Row229 == <<"2", "2", "9", " ", "m", "p", "4", " ", "4", "2", "6", "x", "2", "4", "0">>

Row140 == <<"1", "4", "0", " ", "m", "4", "a", " ", "a", "u", "d", "i", "o", " ", "o", "n", "l", "y">>

Id22 == <<"2", "2">>

Id1 == <<"1">>

Id22Space == <<"2", "2", " ">>

Id140 == <<"1", "4", "0">>

(***************************************************************************)
(* The regular-expression searches of the code.                            *)
(***************************************************************************)
Min(a, b) == IF a <= b THEN a ELSE b

CharAt(s, i) == IF i >= 1 /\ i <= Len(s) THEN s[i] ELSE ""

\* (\d{1,3}(?:\.\d+)?)% tried at position i with n leading digits: the
\* index of the last character of group 1, or 0 when there is no match
PercentAt(s, i, n) ==
    LET j == i + n
        m == DigitRun(s, j + 1)
    IN  IF DigitRun(s, i) < n THEN 0
        ELSE IF CharAt(s, j) = "." /\ m >= 1 /\ CharAt(s, j + 1 + m) = "%" THEN j + m
        ELSE IF CharAt(s, j) = "%" THEN j - 1
        ELSE 0

\* re.search(r"(\d{1,3}(?:\.\d+)?)%", line): group 1 of the leftmost match,
\* the digit count tried greedily; <<>> when the line has no match
PercentGroup(line) ==
    LET hits == {i \in 1..Len(line) : \E n \in 1..3 : PercentAt(line, i, n) > 0}
    IN  IF hits = {} THEN <<>>
        ELSE LET i == CHOOSE k \in hits : \A l \in hits : k <= l
                 n == CHOOSE k \in 1..3 :
                        /\ PercentAt(line, i, k) > 0
                        /\ \A l \in 1..3 : PercentAt(line, i, l) > 0 => l <= k
             IN  SubSeq(line, i, PercentAt(line, i, n))

\* float(group 1) as the fraction num / den
PercentOf(group) ==
    LET w == DigitRun(group, 1)
        frac == SubSeq(group, w + 2, Len(group))
    IN  [num |-> DigitsToInt(SubSeq(group, 1, w) \o frac), den |-> 10 ^ Len(frac)]

\* round((percent / 100) * total), ties to even as Python's round()
RoundedSize(percent, total) ==
    LET c == percent.den * 100
        q == MulDivFloor(percent.num, total, c)
        r == ((total % c) * percent.num) % c
    IN  IF 2 * r > c THEN q + 1
        ELSE IF 2 * r < c THEN q
        ELSE IF q % 2 = 0 THEN q ELSE q + 1

\* a faulty variant: the bytes still to come instead of the bytes received
new_size_remaining(percent, total) ==
    total - MulDivFloor(percent.num, total, percent.den * 100)

\* a faulty variant: the product is rounded to the nearest integer
new_size_rounded(percent, total) == RoundedSize(percent, total)

\* int((percent / 100) * total_size)
new_size_of(percent, total) == MulDivFloor(percent.num, total, percent.den * 100)

\* (\d{3,4}x\d{3,4}) tried at position i with n leading digits: the index
\* of the last character of the match, or 0
ResolutionAt(s, i, n) ==
    LET j == i + n
        m == DigitRun(s, j + 1)
    IN  IF DigitRun(s, i) >= n /\ CharAt(s, j) = "x" /\ m >= 3
        THEN j + Min(m, 4) ELSE 0

\* re.search(r"(\d{3,4}x\d{3,4})", line): group 1, or <<>>
ResolutionGroup(line) ==
    LET hits == {i \in 1..Len(line) : \E n \in 3..4 : ResolutionAt(line, i, n) > 0}
    IN  IF hits = {} THEN <<>>
        ELSE LET i == CHOOSE k \in hits : \A l \in hits : k <= l
                 n == IF ResolutionAt(line, i, 4) > 0 THEN 4 ELSE 3
             IN  SubSeq(line, i, ResolutionAt(line, i, n))

\* group 1 of the row pattern of get_video_formats, (\d+)\s+(\S+)...(.+):
\* the leading integer of a row that matches, <<>> for a line that does not
FormatIdOf(line) ==
    LET r == DigitRun(line, 1)
        rest == {i \in (r + 1)..Len(line) : line[i] \notin Whitespace}
    IN  IF r >= 1 /\ CharAt(line, r + 1) \in Whitespace /\ rest # {}
            /\ (CHOOSE i \in rest : \A j \in rest : i <= j) < Len(line)
        THEN SubSeq(line, 1, r) ELSE <<>>

\* text.split("\n")
RECURSIVE SplitLines(_)
SplitLines(text) ==
    LET nl == {i \in 1..Len(text) : text[i] = "\n"}
    IN  IF nl = {} THEN <<text>>
        ELSE LET i == CHOOSE k \in nl : \A l \in nl : k <= l
             IN  <<SubSeq(text, 1, i - 1)>> \o SplitLines(SubSeq(text, i + 1, Len(text)))

\* the lines of a listing joined into the text the tool writes
RECURSIVE JoinLines(_)
JoinLines(lines) ==
    IF lines = <<>> THEN <<>>
    ELSE IF Len(lines) = 1 THEN lines[1]
    ELSE lines[1] \o <<"\n">> \o JoinLines(Tail(lines))

(***************************************************************************)
(* Inputs: what the external tool answers and what the user types.         *)
(***************************************************************************)
ExitCodes == {0, 1, -9}

\* the objects the metadata query can answer with
JObject(t, f, r) == [title |-> t, filesize_approx |-> f, resolution |-> r]

JsonObjects ==
    {JObject(JStr(TitleTest), JInt(15 * 1024 * 1024), JStr(Res1080)),
     JObject(JStr(TitleTest), JInt(1024 * 1024 * 1024), JAbsent),
     JObject(JStr(TitleTest), JStr(NotANumber), JStr(Res1080)),
     JObject(JStr(TitleTest), JNull, JStr(Res1080)),
     JObject(JAbsent, JStr(NotANumber), JAbsent),
     JObject(JAbsent, JAbsent, JAbsent)}

NoJson == [title |-> JAbsent, filesize_approx |-> JAbsent, resolution |-> JAbsent]

\* outcomes of "yt-dlp --dump-json": exit status, whether stdout is JSON,
\* and the object it holds
DumpJsonOutcomes ==
    {[rc |-> 1, parses |-> FALSE, obj |-> NoJson],
     [rc |-> 0, parses |-> FALSE, obj |-> NoJson]}
        \cup {[rc |-> 0, parses |-> TRUE, obj |-> o] : o \in JsonObjects}

Header == <<Header1, Header2, Header3>>

Catalogs ==
    {JoinLines(Header \o <<Row18, Row22, Row229, Row140>>),
     JoinLines(Header \o <<Row140, Row22>>)}

\* outcomes of "yt-dlp -F": exit status and stdout
ListingOutcomes ==
    {[rc |-> 1, stdout |-> <<>>], [rc |-> 0, stdout |-> <<>>]}
        \cup {[rc |-> 0, stdout |-> c] : c \in Catalogs}

VideoIds == {Id22, Id1, Id22Space}

OutputLines == {LineTenth, LineHalf, LineFull, LineMerger}

(***************************************************************************)
(* get_video_info, get_video_formats and the size arithmetic               *)
(***************************************************************************)
NoneInfo == [none |-> TRUE, title |-> <<>>, filesize |-> <<>>, resolution |-> <<>>]

\* info.get(key, default)
dict_get(field, default) == IF field.kind = "absent" THEN default ELSE field

\* get_video_info on an outcome of the tool: the exception that escapes it,
\* the value it returns and what it prints
get_video_info(out) ==
    IF out.rc # 0
    THEN [exc |-> "none", ret |-> NoneInfo, msg |-> <<"FailedInfo">>]
    ELSE IF ~out.parses
    THEN [exc |-> "none", ret |-> NoneInfo, msg |-> <<"ParseError">>]
    ELSE LET fs == dict_get(out.obj.filesize_approx, JInt(0))
         IN  IF int_of(fs).exc = "TypeError"
             THEN [exc |-> "TypeError", ret |-> NoneInfo, msg |-> <<>>]
             ELSE [exc |-> "none",
                   ret |-> [none |-> FALSE,
                            title |-> dict_get(out.obj.title, JStr(UnknownTitle)).s,
                            filesize |-> format_file_size(fs),
                            resolution |->
                                dict_get(out.obj.resolution, JStr(UnknownResolution)).s],
                   msg |-> <<>>]

\* get_video_formats: None on a non-zero exit status, else stdout
get_video_formats(out) ==
    IF out.rc # 0 THEN [none |-> TRUE, text |-> <<>>, msg |-> <<"FormatsError">>]
    ELSE [none |-> FALSE, text |-> out.stdout, msg |-> <<"FormatsTable">>]

\* s.strip()
RECURSIVE strip(_)
strip(s) ==
    IF s = <<>> THEN s
    ELSE IF Head(s) \in Whitespace THEN strip(Tail(s))
    ELSE IF s[Len(s)] \in Whitespace THEN strip(SubSeq(s, 1, Len(s) - 1))
    ELSE s

\* float(token) as the fraction num / den, or ValueError
float_of(token) ==
    LET w == DigitRun(token, 1)
        frac == SubSeq(token, w + 2, Len(token))
    IN  IF w >= 1 /\ w = Len(token)
        THEN [exc |-> "none", num |-> DigitsToInt(token), den |-> 1]
        ELSE IF w >= 1 /\ token[w + 1] = "." /\ DigitRun(token, w + 2) = Len(frac)
        THEN [exc |-> "none", num |-> DigitsToInt(SubSeq(token, 1, w) \o frac),
              den |-> 10 ^ Len(frac)]
        ELSE [exc |-> "ValueError", num |-> 0, den |-> 1]

\* total_size of download_video and download_audio
single_total_size(filesize) ==
    IF filesize # UnknownSize THEN int_of(JStr(FirstToken(filesize)))
    ELSE [exc |-> "none", n |-> 0]

\* int(total_size) of download_and_merge
merge_total_size(filesize) ==
    LET f == float_of(FirstToken(filesize))
    IN  IF Contains(filesize, <<"M", "B">>)
        THEN IF f.exc = "ValueError" THEN 0
             ELSE MulDivFloor(f.num, 1024 * 1024, f.den)
        ELSE IF Contains(filesize, <<"G", "B">>)
        THEN IF f.exc = "ValueError" THEN 0
             ELSE MulDivFloor(f.num, 1024 * 1024 * 1024, f.den)
        ELSE 0

\* the test that selects a row of the listing for the chosen video format
line_selected(line, video_format_id) == startswith(line, video_format_id)

\* the loop that looks the resolution up in the listing
RECURSIVE find_resolution(_, _, _)
find_resolution(format_details, video_format_id, resolution) ==
    IF format_details = <<>> THEN resolution
    ELSE LET l == Head(format_details)
             m == ResolutionGroup(l)
         IN  find_resolution(Tail(format_details), video_format_id,
                 IF line_selected(l, video_format_id) /\ m # <<>> THEN m ELSE resolution)

\* a faulty variant: the exit status is compared for being non-negative
download_succeeded_nonneg(result) == result >= 0

\* result == 0
download_succeeded(result) == result = 0

\* a faulty variant: the resolution suffix is left out
video_new_filename_plain(safe_title, resolution) == safe_title \o Ext_mp4

\* new_filename of download_video
video_new_filename(safe_title, resolution) ==
    safe_title \o <<"_">> \o resolution \o Ext_mp4

\* download_title + ".mp4" of download_and_merge
merge_filename(safe_title, resolution) ==
    safe_title \o <<"_", "(">> \o resolution \o <<")">> \o Ext_mp4

(***************************************************************************)
(* State                                                                   *)
(***************************************************************************)
VARIABLES
    pc,               \* position of the program
    exc,              \* the unhandled exception that ended it, or "none"
    printed,          \* the banners printed so far
    choice,           \* the download type typed by the user
    video_format_id,  \* the video format id handed to the workflow
    info,             \* the object parsed by the last get_video_info
    video_info,       \* the value returned by the last get_video_info
    safe_title,
    format_details,   \* lines of the listing read by download_and_merge
    resolution,       \* resolution looked up by download_and_merge
    video_output,     \* the path handed to the tool with -o
    total_size,
    child,            \* the download child: state and exit status
    pipe,             \* lines written by the child and not yet read
    emitted,          \* every line the child has written, in order
    launches,         \* number of download children started
    line,             \* the line being handled
    downloaded_size,
    deltas,           \* the arguments of progress_bar.update, in order
    handled,          \* the lines whose handling is finished, in order
    result,           \* the value returned by download_with_progress
    files,            \* files in the download directory
    renames,          \* the calls of os.rename
    title             \* the input of the sanitiser specification

vars ==
    <<pc, exc, printed, choice, video_format_id, info, video_info, safe_title,
      format_details, resolution, video_output, total_size, child, pipe, emitted,
      launches, line, downloaded_size, deltas, handled, result, files, renames,
      title>>

mainVars == <<choice, video_format_id>>

metaVars == <<info, video_info, safe_title>>

mergeVars == <<format_details, resolution>>

sizeVars == <<video_output, total_size>>

procVars == <<child, pipe, emitted, launches>>

loopVars == <<line, downloaded_size, deltas, handled, result>>

fsVars == <<files, renames>>

NoChild == [state |-> "none", status |-> 0]

Blank ==
    /\ exc = "none"
    /\ printed = <<>>
    /\ choice = ""
    /\ video_format_id = <<>>
    /\ info = NoJson
    /\ video_info = NoneInfo
    /\ safe_title = <<>>
    /\ format_details = <<>>
    /\ resolution = <<>>
    /\ video_output = <<>>
    /\ total_size = 0
    /\ child = NoChild
    /\ pipe = <<>>
    /\ emitted = <<>>
    /\ launches = 0
    /\ line = <<>>
    /\ downloaded_size = 0
    /\ deltas = <<>>
    /\ handled = <<>>
    /\ result = 0
    /\ files = {}
    /\ renames = <<>>

Init ==
    /\ pc = "main_info"
    /\ title = <<>>
    /\ Blank

(***************************************************************************)
(* main()                                                                  *)
(***************************************************************************)
Crash(e) ==
    /\ pc' = "crashed"
    /\ exc' = e

\* main, lines 180-184: the metadata query and the printing of its items
MainGetVideoInfo ==
    /\ pc = "main_info"
    /\ \E out \in DumpJsonOutcomes :
        LET r == get_video_info(out)
        IN  /\ info' = out.obj
            /\ video_info' = r.ret
            /\ IF r.exc # "none"
               THEN Crash(r.exc) /\ printed' = printed \o r.msg
               ELSE IF r.ret.none
               THEN Crash("AttributeError") /\ printed' = printed \o r.msg
               ELSE /\ pc' = "main_formats"
                    /\ exc' = exc
                    /\ printed' = printed \o r.msg \o <<"Details">>
    /\ UNCHANGED <<mainVars, safe_title, mergeVars, sizeVars, procVars, loopVars,
                   fsVars, title>>

\* main, lines 186-189: the listing of the formats
MainGetFormats ==
    /\ pc = "main_formats"
    /\ \E out \in ListingOutcomes :
        LET r == get_video_formats(out)
        IN  IF r.none \/ r.text = <<>>
            THEN /\ pc' = "done"
                 /\ printed' = printed \o r.msg \o <<"NoFormats">>
            ELSE /\ pc' = "main_choice"
                 /\ printed' = printed \o r.msg
    /\ UNCHANGED <<exc, mainVars, metaVars, mergeVars, sizeVars, procVars, loopVars,
                   fsVars, title>>

\* main, lines 191-199: the download type and the format id
MainChoose ==
    /\ pc = "main_choice"
    /\ \/ \E id \in VideoIds :
            /\ choice' = "1"
            /\ video_format_id' = strip(id)
            /\ pc' = "resolve"
            /\ printed' = printed
       \/ /\ choice' = "2"
          /\ video_format_id' = strip(Id140)
          /\ pc' = "resolve"
          /\ printed' = printed
       \/ \E id \in VideoIds :
            /\ choice' = "3"
            /\ video_format_id' = id
            /\ pc' = "resolve"
            /\ printed' = printed
       \/ /\ choice' = "x"
          /\ video_format_id' = <<>>
          /\ pc' = "done"
          /\ printed' = Append(printed, "InvalidChoice")
    /\ UNCHANGED <<exc, metaVars, mergeVars, sizeVars, procVars, loopVars, fsVars,
                   title>>

(***************************************************************************)
(* download_video, download_audio, download_and_merge up to the download   *)
(***************************************************************************)
\* lines 102-104, 125-127, 141-143: metadata, safe title, output path
Resolve ==
    /\ pc = "resolve"
    /\ \E out \in DumpJsonOutcomes :
        LET r == get_video_info(out)
            safe == IF choice = "3" THEN merge_safe_title(r.ret.title)
                    ELSE sanitize_filename(r.ret.title)
        IN  /\ info' = out.obj
            /\ video_info' = r.ret
            /\ printed' = printed \o r.msg
            /\ IF r.exc # "none"
               THEN Crash(r.exc) /\ UNCHANGED <<safe_title, video_output>>
               ELSE IF r.ret.none
               THEN Crash("TypeError") /\ UNCHANGED <<safe_title, video_output>>
               ELSE /\ exc' = exc
                    /\ safe_title' = safe
                    /\ pc' = IF choice = "3" THEN "lookup" ELSE "size"
                    /\ video_output' =
                         CASE choice = "1" -> safe \o Ext_mp4
                           [] choice = "2" -> safe \o Ext_m4a
                           [] OTHER -> video_output
    /\ UNCHANGED <<mainVars, mergeVars, total_size, procVars, loopVars, fsVars, title>>

\* download_and_merge, lines 146-155: the resolution and the output name
LookupResolution ==
    /\ pc = "lookup"
    /\ \E out \in ListingOutcomes :
        LET r == get_video_formats(out)
            res == find_resolution(SplitLines(r.text), video_format_id, UnknownRes)
        IN  /\ printed' = printed \o r.msg
            /\ IF r.none
               THEN Crash("AttributeError")
                    /\ UNCHANGED <<format_details, resolution, video_output>>
               ELSE /\ exc' = exc
                    /\ pc' = "size"
                    /\ format_details' = SplitLines(r.text)
                    /\ resolution' = res
                    /\ video_output' = merge_filename(safe_title, res)
    /\ UNCHANGED <<mainVars, metaVars, total_size, procVars, loopVars, fsVars, title>>

\* lines 106, 129, 158-162: the total size handed to the progress bar
ComputeTotalSize ==
    /\ pc = "size"
    /\ IF choice = "3"
       THEN /\ total_size' = merge_total_size(video_info.filesize)
            /\ pc' = "popen"
            /\ exc' = exc
            /\ printed' = Append(printed, "Downloading")
       ELSE LET r == single_total_size(video_info.filesize)
            IN  /\ printed' = printed
                /\ IF r.exc # "none"
                   THEN Crash(r.exc) /\ total_size' = total_size
                   ELSE /\ total_size' = r.n
                        /\ pc' = "popen"
                        /\ exc' = exc
    /\ UNCHANGED <<mainVars, metaVars, mergeVars, video_output, procVars, loopVars,
                   fsVars, title>>

(***************************************************************************)
(* download_with_progress and the download child                           *)
(***************************************************************************)
\* lines 78-81: the child is started, the progress bar is created
Popen ==
    /\ pc = "popen"
    /\ child' = [state |-> "running", status |-> 0]
    /\ launches' = launches + 1
    /\ downloaded_size' = 0
    /\ pc' = "read"
    /\ UNCHANGED <<exc, printed, mainVars, metaVars, mergeVars, sizeVars, pipe,
                   emitted, line, deltas, handled, result, fsVars, title>>

\* the child writes one line to its output
ChildEmit ==
    /\ child.state = "running"
    /\ Len(emitted) < MaxLines
    /\ \E l \in OutputLines :
        /\ pipe' = Append(pipe, l)
        /\ emitted' = Append(emitted, l)
    /\ UNCHANGED <<pc, exc, printed, mainVars, metaVars, mergeVars, sizeVars, child,
                   launches, loopVars, fsVars, title>>

\* the child ends: its output is closed, the file at the output path was
\* written or not
ChildExit ==
    /\ child.state = "running"
    /\ \E code \in ExitCodes, wrote \in BOOLEAN :
        /\ child' = [state |-> "exited", status |-> code]
        /\ files' = IF wrote THEN files \cup {video_output} ELSE files
    /\ UNCHANGED <<pc, exc, printed, mainVars, metaVars, mergeVars, sizeVars, pipe,
                   emitted, launches, loopVars, renames, title>>

\* a faulty variant: the loop ends as soon as no line is waiting
AtEndOfOutput_nothing_waiting == pipe = <<>>

\* the iteration over process.stdout ends: the child closed its output and
\* every line was read
AtEndOfOutput == pipe = <<>> /\ child.state = "exited"

\* line 82: the next line is read
ReadLine ==
    /\ pc = "read"
    /\ pipe # <<>>
    /\ line' = Head(pipe)
    /\ pipe' = Tail(pipe)
    /\ pc' = "handle"
    /\ UNCHANGED <<exc, printed, mainVars, metaVars, mergeVars, sizeVars, child,
                   emitted, launches, downloaded_size, deltas, handled, result,
                   fsVars, title>>

\* lines 83-88: the body of the loop for the line read
HandleLine ==
    /\ pc = "handle"
    /\ LET g == PercentGroup(line)
           new_size == new_size_of(PercentOf(g), total_size)
       IN  IF g # <<>>
           THEN /\ deltas' = Append(deltas, new_size - downloaded_size)
                /\ downloaded_size' = new_size
           ELSE UNCHANGED <<deltas, downloaded_size>>
    /\ handled' = Append(handled, line)
    /\ pc' = "read"
    /\ UNCHANGED <<exc, printed, mainVars, metaVars, mergeVars, sizeVars, procVars,
                   line, result, fsVars, title>>

\* line 82: the iteration ends
EndOfOutput ==
    /\ pc = "read"
    /\ AtEndOfOutput
    /\ pc' = "wait"
    /\ UNCHANGED <<exc, printed, mainVars, metaVars, mergeVars, sizeVars, procVars,
                   loopVars, fsVars, title>>

\* process.returncode after process.wait()
returned_code(status) == status

\* lines 90-92: wait for the child, close the bar, return the exit status
Wait ==
    /\ pc = "wait"
    /\ child.state = "exited"
    /\ child' = [child EXCEPT !.state = "reaped"]
    /\ result' = returned_code(child.status)
    /\ pc' = "finish"
    /\ UNCHANGED <<exc, printed, mainVars, metaVars, mergeVars, sizeVars, pipe,
                   emitted, launches, line, downloaded_size, deltas, handled, fsVars,
                   title>>

(***************************************************************************)
(* After the download                                                      *)
(***************************************************************************)
\* what os.rename(src, dst) can do
RenameOutcomes(src) ==
    IF src \in files THEN {"ok", "OSError"} ELSE {"FileNotFoundError"}

\* lines 114-120, 133-136, 172-175
Finish ==
    /\ pc = "finish"
    /\ IF ~download_succeeded(result)
       THEN /\ printed' = Append(printed,
                    CASE choice = "1" -> "VideoFailed"
                      [] choice = "2" -> "AudioFailed"
                      [] OTHER -> "MergeFailed")
            /\ pc' = "done"
            /\ UNCHANGED <<exc, fsVars>>
       ELSE IF choice = "1"
       THEN LET dst == video_new_filename(safe_title, video_info.resolution)
            IN  /\ renames' = Append(renames, [src |-> video_output, dst |-> dst])
                /\ \E o \in RenameOutcomes(video_output) :
                    IF o = "ok"
                    THEN /\ files' = (files \ {video_output}) \cup {dst}
                         /\ printed' = Append(printed, "VideoOk")
                         /\ pc' = "done"
                         /\ exc' = exc
                    ELSE /\ Crash(o)
                         /\ UNCHANGED <<files, printed>>
       ELSE /\ printed' = Append(printed,
                    IF choice = "2" THEN "AudioOk" ELSE "MergeOk")
            /\ pc' = "done"
            /\ UNCHANGED <<exc, fsVars>>
    /\ UNCHANGED <<mainVars, metaVars, mergeVars, sizeVars, procVars, loopVars, title>>

Next ==
    \/ MainGetVideoInfo
    \/ MainGetFormats
    \/ MainChoose
    \/ Resolve
    \/ LookupResolution
    \/ ComputeTotalSize
    \/ Popen
    \/ ChildEmit
    \/ ChildExit
    \/ ReadLine
    \/ HandleLine
    \/ EndOfOutput
    \/ Wait
    \/ Finish

Spec == Init /\ [][Next]_vars

(***************************************************************************)
(* The sanitiser on its own: every title up to MaxLen characters over a    *)
(* small alphabet, sanitised once, twice, and by the inline copy.          *)
(***************************************************************************)
SanChars == {"a", "7", "é", " ", "_", "-", "/", "!", "\n"}

SanTitles == UNION {[1..n -> SanChars] : n \in 0..MaxLen}

SanInit ==
    /\ pc = "sanitize"
    /\ title \in SanTitles
    /\ Blank

\* sanitize_filename(title)
SanitizeTitle ==
    /\ pc = "sanitize"
    /\ safe_title' = sanitize_filename(title)
    /\ pc' = "sanitized"
    /\ UNCHANGED <<exc, printed, mainVars, info, video_info, mergeVars, sizeVars,
                   procVars, loopVars, fsVars, title>>

\* sanitize_filename applied to its own result
SanitizeAgain ==
    /\ pc = "sanitized"
    /\ safe_title' = sanitize_filename(safe_title)
    /\ pc' = "resanitized"
    /\ UNCHANGED <<exc, printed, mainVars, info, video_info, mergeVars, sizeVars,
                   procVars, loopVars, fsVars, title>>

\* the expression of download_and_merge, line 143
SanitizeInline ==
    /\ pc = "sanitize"
    /\ safe_title' = merge_safe_title(title)
    /\ pc' = "sanitized_inline"
    /\ UNCHANGED <<exc, printed, mainVars, info, video_info, mergeVars, sizeVars,
                   procVars, loopVars, fsVars, title>>

SanNext ==
    \/ SanitizeTitle
    \/ SanitizeAgain
    \/ SanitizeInline

SpecSanitize == SanInit /\ [][SanNext]_vars

(***************************************************************************)
(* Properties                                                              *)
(***************************************************************************)
FailureBanners == {"VideoFailed", "AudioFailed", "MergeFailed"}

ChildFailed == child.state \in {"exited", "reaped"} /\ child.status # 0

\* C1: once the download child has exited with a non-zero status, no step
\* renames or changes a file or starts another child, the program does not
\* end in an exception, and when it ends the last banner printed is the
\* failure banner of the workflow.
C1_FailedDownload ==
    [][ChildFailed =>
            /\ renames' = renames
            /\ renames = <<>>
            /\ files' = files
            /\ launches' = launches
            /\ launches = 1
            /\ exc' = "none"
            /\ pc' \in {"read", "handle", "wait", "finish", "done"}
            /\ (pc' = "done" =>
                    /\ printed' # <<>>
                    /\ printed'[Len(printed')] \in FailureBanners)]_vars

\* a failed video download has ended: the banner is printed and the partial
\* file is where the child left it
C1_Witness ==
    /\ pc = "done"
    /\ choice = "1"
    /\ child.state = "reaped"
    /\ child.status = 1
    /\ video_output \in files
    /\ printed[Len(printed)] = "VideoFailed"

\* C2: in the video workflow a download child that exited with status 0 is
\* followed by exactly one rename, from "<safe title>.mp4" to
\* "<safe title>_<resolution>.mp4", and a rename is only ever called after
\* an exit status of 0.
C2_VideoRename ==
    LET safe == sanitize_filename(video_info.title)
        src == safe \o Ext_mp4
        dst == safe \o <<"_">> \o video_info.resolution \o Ext_mp4
    IN  /\ (choice = "1" /\ pc \in {"done", "crashed"}
                /\ child.state = "reaped" /\ child.status = 0) =>
                /\ renames = <<[src |-> src, dst |-> dst]>>
                /\ (pc = "done" =>
                        /\ dst \in files
                        /\ src \notin files
                        /\ printed[Len(printed)] = "VideoOk")
        /\ renames # <<>> =>
                /\ choice = "1"
                /\ child.state = "reaped"
                /\ child.status = 0
                /\ result = 0

\* a video download with a resolved title succeeded and the file was renamed
C2_Witness ==
    /\ pc = "done"
    /\ choice = "1"
    /\ video_info.title = TitleTest
    /\ video_info.resolution = Res1080
    /\ Len(renames) = 1
    /\ renames[1].dst \in files

\* the text after the last space of s
LastToken(s) ==
    LET sp == {i \in 1..Len(s) : s[i] = " "}
    IN  IF sp = {} THEN s
        ELSE SubSeq(s, (CHOOSE i \in sp : \A j \in sp : j <= i) + 1, Len(s))

\* the total the unit scaling of the size string gives
ExpectedTotal(filesize) ==
    LET f == float_of(FirstToken(filesize))
        unit == LastToken(filesize)
    IN  IF f.exc # "none" THEN 0
        ELSE IF unit = <<"M", "B">> THEN MulDivFloor(f.num, 1024 * 1024, f.den)
        ELSE IF unit = <<"G", "B">> THEN MulDivFloor(f.num, 1024 * 1024 * 1024, f.den)
        ELSE 0

\* C3: computing the total size never raises, and the total handed to the
\* download is the value scaled by its unit (MB, GB) or 0.
C3_TotalSizeNeverFails ==
    /\ ~(pc = "crashed" /\ exc = "ValueError")
    /\ (pc = "popen" => total_size = ExpectedTotal(video_info.filesize))

MetadataFailed == "FailedInfo" \in Range(printed) \/ "ParseError" \in Range(printed)

\* C4: when the metadata query failed, no download child is started, no
\* rename is called, and the program does not end in an unhandled exception.
C4_MetadataFailureReported ==
    MetadataFailed =>
        /\ launches = 0
        /\ renames = <<>>
        /\ pc # "crashed"
        /\ exc = "none"

\* the percentages of the lines handled so far, in order
RECURSIVE PercentsOf(_)
PercentsOf(lines) ==
    IF lines = <<>> THEN <<>>
    ELSE LET g == PercentGroup(lines[Len(lines)])
             before == PercentsOf(SubSeq(lines, 1, Len(lines) - 1))
         IN  IF g = <<>> THEN before ELSE Append(before, PercentOf(g))

\* p <= q for two percentages
PercentLeq(p, q) == p.num * q.den <= q.num * p.den

NonDecreasing(ps) == \A i \in 1..(Len(ps) - 1) : PercentLeq(ps[i], ps[i + 1])

RECURSIVE SumSeq(_)
SumSeq(s) == IF s = <<>> THEN 0 ELSE s[1] + SumSeq(Tail(s))

C6_Rounded ==
    LET ps == PercentsOf(handled)
    IN  ps # <<>> => downloaded_size = RoundedSize(ps[Len(ps)], total_size)

\* C6, amended: downloaded_size is the sum of the deltas emitted so far and,
\* after a line with percentage p, the product p / 100 * total_size
\* truncated to an integer, which is the rounded value or one less; with a
\* total of 0 every delta is 0.
C6_Truncated ==
    LET ps == PercentsOf(handled)
    IN  /\ downloaded_size = SumSeq(deltas)
        /\ Len(deltas) = Len(ps)
        /\ ps # <<>> =>
              LET p == ps[Len(ps)]
              IN  /\ downloaded_size = MulDivFloor(p.num, total_size, p.den * 100)
                  /\ downloaded_size \in
                        {RoundedSize(p, total_size) - 1, RoundedSize(p, total_size)}
        /\ (total_size = 0 => \A i \in 1..Len(deltas) : deltas[i] = 0)

\* a percentage whose product with the total has a fraction above one half
\* was handled: the truncated and the rounded value differ
C6_Witness ==
    LET ps == PercentsOf(handled)
    IN  /\ ps # <<>>
        /\ total_size > 0
        /\ downloaded_size = RoundedSize(ps[Len(ps)], total_size) - 1

C8_ZeroIsUnknown ==
    LET fs == dict_get(info.filesize_approx, JInt(0))
    IN  (~video_info.none /\ (fs = JInt(0) \/ int_of(fs).exc = "ValueError")) =>
            video_info.filesize = UnknownSize

SafeChars == Letters \cup Digits \cup {" ", "_", "-"}

\* C9: the sanitised title has the length of the title, holds only letters,
\* digits, space, underscore and hyphen, keeps every such character of the
\* title at its position, is unchanged by a second application, and is what
\* the inline expression of download_and_merge gives.
C9_Sanitize ==
    pc \in {"sanitized", "resanitized", "sanitized_inline"} =>
        /\ Len(safe_title) = Len(title)
        /\ \A i \in 1..Len(safe_title) :
              /\ safe_title[i] \in SafeChars
              /\ safe_title[i] \notin {"/", "\\", "\n"}
              /\ (title[i] \in SafeChars => safe_title[i] = title[i])
              /\ (title[i] \notin SafeChars => safe_title[i] = "_")

\* a title with a path separator and a control character was sanitised twice
C9_Witness ==
    /\ pc = "resanitized"
    /\ Len(title) = 3
    /\ title[1] = "/"
    /\ title[2] = "\n"
    /\ title[3] = "é"

\* C10: the resolution of the merge output name is the resolution of the row
\* of the listing whose format id equals the chosen video format id, and
\* "UnknownRes" when no such row carries a resolution.
C10_ExactRow ==
    LET rows == {i \in 1..Len(format_details) :
                    /\ FormatIdOf(format_details[i]) = video_format_id
                    /\ ResolutionGroup(format_details[i]) # <<>>}
    IN  (choice = "3" /\ format_details # <<>>) =>
            /\ IF rows = {} THEN resolution = UnknownRes
               ELSE \E i \in rows : resolution = ResolutionGroup(format_details[i])
            /\ video_output = safe_title \o <<"_", "(">> \o resolution \o <<")">> \o Ext_mp4

====
